---- MODULE Spec2Model ----
(***************************************************************************)
(* A model of the media gateway of src/server.py: the two Flask handlers   *)
(* /transcribe and /tts, the temporary files they create in the shared     *)
(* temporary directory, the calls they make to the external backends       *)
(* (replicate.run, edge_tts.Communicate.save) and the responses they       *)
(* return.  One worker handles one request at a time; workers run          *)
(* concurrently and share only the temporary directory and the read-only   *)
(* voice catalog.  The remote-control script of src/cec-remote.py, a       *)
(* process of its own, is modelled by the specification SpecCec.           *)
(*                                                                         *)
(* Python values are modelled as follows.  A str that the code only        *)
(* compares or uses as a dict key (a language, a speaker, a voice, a       *)
(* filename) is a TLA+ string.  A str the code inspects or builds (the     *)
(* text it strips, an f-string message, a transcription) is a sequence of  *)
(* pieces, wrapped as JStr(s); None is JNull.                              *)
(***************************************************************************)
EXTENDS Integers, Sequences, FiniteSets, TLC

-----------------------------------------------------------------------------
(* Bounds of the model *)

\* Names the temporary directory can hold (mkstemp's name space).
MaxNames == 2

\* Requests that arrive in a run.
MaxRequests == 2

\* Events the remote-control script polls in a run.
MaxEvents == 4

\* The concurrent workers (one per in-flight request).
Reqs == {1, 2}

Names == 1..MaxNames

-----------------------------------------------------------------------------
(* Python and JSON values *)

JStr(s) == [t |-> "str", v |-> s]
JNull == [t |-> "null"]
JNum == [t |-> "num"]

IsStr(x) == x.t = "str"

\* Characters str.strip() removes.
Whitespace == {" ", "\t", "\n"}

RECURSIVE LStrip(_)
LStrip(s) ==
    IF s # <<>> /\ Head(s) \in Whitespace THEN LStrip(Tail(s)) ELSE s

RECURSIVE RStrip(_)
RStrip(s) ==
    IF s # <<>> /\ s[Len(s)] \in Whitespace
    THEN RStrip(SubSeq(s, 1, Len(s) - 1))
    ELSE s

\* A strip that removes nothing: the check `if not text`.
Strip_Nothing(s) == s

\* str.strip(): leading and trailing whitespace removed.
Strip(s) == RStrip(LStrip(s))

\* An insertion-ordered dict as a sequence of <<key, value>> pairs.
DictKeys(d) == [i \in 1..Len(d) |-> d[i][1]]
DictGet(d, k) == d[CHOOSE i \in 1..Len(d) : d[i][1] = k][2]
DictValues(d) == {d[i][2] : i \in 1..Len(d)}
DictHas(d, k) == \E i \in 1..Len(d) : d[i][1] = k

\* repr() of a str or None
Repr(x) == IF IsStr(x) THEN <<"'">> \o x.v \o <<"'">> ELSE <<"None">>

RECURSIVE ReprItems(_)
ReprItems(d) ==
    IF d = <<>> THEN <<>>
    ELSE <<"'", d[1][1], "': ">> \o Repr(d[1][2])
         \o (IF Len(d) > 1 THEN <<", ">> ELSE <<>>) \o ReprItems(Tail(d))

RECURSIVE ReprList(_)
ReprList(l) ==
    IF l = <<>> THEN <<>>
    ELSE Repr(l[1]) \o (IF Len(l) > 1 THEN <<", ">> ELSE <<>>) \o ReprList(Tail(l))

\* str() of a backend result: a dict, a str or a list
PyStr(o) ==
    CASE o.t = "dict" -> <<"{">> \o ReprItems(o.v) \o <<"}">>
      [] o.t = "str" -> o.v
      [] OTHER -> <<"[">> \o ReprList(o.v) \o <<"]">>

-----------------------------------------------------------------------------
(* The voice catalog *)

language_dict_init ==
    [l \in {"English", "Hindi", "Tamil", "Telugu", "Kannada", "Malayalam",
            "Marathi", "Gujarati", "Bengali", "Urdu"} |->
        CASE l = "English" ->
                << <<"Jenny", "en-US-JennyNeural">>, <<"Guy", "en-US-GuyNeural">> >>
          [] l = "Hindi" ->
                << <<"Madhur", "hi-IN-MadhurNeural">>, <<"Swara", "hi-IN-SwaraNeural">> >>
          [] l = "Tamil" ->
                << <<"Pallavi", "ta-IN-PallaviNeural">>, <<"Valluvar", "ta-IN-ValluvarNeural">> >>
          [] l = "Telugu" ->
                << <<"Mohan", "te-IN-MohanNeural">>, <<"Shruti", "te-IN-ShrutiNeural">> >>
          [] l = "Kannada" ->
                << <<"Gagan", "kn-IN-GaganNeural">>, <<"Sapna", "kn-IN-SapnaNeural">> >>
          [] l = "Malayalam" ->
                << <<"Midhun", "ml-IN-MidhunNeural">>, <<"Sobhana", "ml-IN-SobhanaNeural">> >>
          [] l = "Marathi" ->
                << <<"Aarohi", "mr-IN-AarohiNeural">>, <<"Manohar", "mr-IN-ManoharNeural">> >>
          [] l = "Gujarati" ->
                << <<"Dhwani", "gu-IN-DhwaniNeural">>, <<"Niranjan", "gu-IN-NiranjanNeural">> >>
          [] l = "Bengali" ->
                << <<"Nabanita", "bn-BD-NabanitaNeural">>, <<"Bashkar", "bn-IN-BashkarNeural">> >>
          [] l = "Urdu" ->
                << <<"Gul", "ur-IN-GulNeural">>, <<"Salman", "ur-IN-SalmanNeural">> >>]

\* Every voice identifier of a catalog.
CatalogVoices(cat) == UNION {DictValues(cat[l]) : l \in DOMAIN cat}

-----------------------------------------------------------------------------
(* State *)

VARIABLES
    pc,             \* pc[r]: where worker r is in its handler
    req,            \* req[r]: the request worker r is handling
    served,         \* served[r]: requests worker r has received so far
    temp,           \* temp[r]: name of the temporary file r created (temp.name), 0 if none
    tmpdir,         \* tmpdir[n]: the file named n in the temporary directory
    touched,        \* touched[n]: the requests that wrote or read the file named n
    output,         \* output[r]: what the backend call returned to r
    exc,            \* exc[r]: str() of the exception r is handling
    voice,          \* voice[r]: the voice generate_tts_audio resolved
    calls,          \* calls[r]: backend invocations of r's current request
    backendArg,     \* backendArg[r]: the input the backend was invoked with
    unlinks,        \* unlinks[r]: os.unlink calls of r's current request
    loop,           \* loop[r]: the event loop of r's current request
    resp,           \* resp[r]: the response r's handler returned
    language_dict,  \* the voice catalog
    cec_pc,         \* where the remote-control script of src/cec-remote.py is
    event,          \* event: what cec.get_event() last returned
    polled,         \* the events polled so far, in order
    keys            \* the keys xdotool was run with so far, in order

\* The state of the gateway of src/server.py.
serverVars == <<pc, req, served, temp, tmpdir, touched, output, exc, voice,
                calls, backendArg, unlinks, loop, resp, language_dict>>

\* The state of the remote-control script, a process of its own.
cecVars == <<cec_pc, event, polled, keys>>

vars == <<serverVars, cecVars>>

NoFile == [exists |-> FALSE]
NoOutput == [t |-> "none"]
NoExc == <<>>
NoResp == [status |-> 0, body |-> <<>>]

NoArg == [t |-> "none"]

\* Event loops: no loop, and the loop that request id created.
NoLoop == [state |-> "none"]
Loop(id, state) == [state |-> state, id |-> id]

\* Contents of a temporary file.
EmptyData == [kind |-> "empty"]
WebmData(stream) == [kind |-> "webm", audio |-> stream]
Mp3Data(text, v) == [kind |-> "mp3", text |-> text, voice |-> v]

\* A file of the temporary directory; owner is the request that created it.
File(data, id) == [exists |-> TRUE, data |-> data, owner |-> id]

-----------------------------------------------------------------------------
(* Requests and backend outcomes *)

EmptyDict == [k \in {} |-> JNull]

NoRequest == [route |-> "none", files |-> EmptyDict, json |-> JNull]

\* The uploads the model sends.
Uploads == {"clipA"}

\* request.files of a /transcribe request: no 'file' field, a field with an
\* empty filename, a field with a filename.
FilesInputs ==
    {EmptyDict, ("file" :> [filename |-> "", stream |-> "clipA"])} \cup
    {("file" :> [filename |-> "clip.webm", stream |-> a]) : a \in Uploads}

TranscribeRequests ==
    {[route |-> "/transcribe", files |-> f, json |-> JNull] : f \in FilesInputs}

\* The texts of /tts requests: empty, whitespace only, padded; and one JSON
\* value that is not a string.
TextInputs ==
    {JStr(<<>>), JStr(<<" ">>), JStr(<<"\t", " ">>), JStr(<<" ", "h", "i", "\n">>),
     JNum}

Absent == [has |-> FALSE]
Present(x) == [has |-> TRUE, v |-> x]
Optional(S) == {Absent} \cup {Present(x) : x \in S}

\* The JSON object of a /tts request: each key present or not.
JsonDict(text, language, speaker) ==
    (IF text.has THEN ("text" :> text.v) ELSE EmptyDict) @@
    (IF language.has THEN ("language" :> language.v) ELSE EmptyDict) @@
    (IF speaker.has THEN ("speaker" :> speaker.v) ELSE EmptyDict)

TtsRequest(text, language, speaker) ==
    [route |-> "/tts", files |-> EmptyDict,
     json |-> [t |-> "dict", v |-> JsonDict(text, language, speaker)]]

\* The languages of /tts requests: a key of the catalog, and strings that are not.
LanguageInputs == {"Hindi", "hindi", "Klingon"}

\* The language and speaker of /tts requests that name a speaker: the second
\* speaker of the language the request resolves to.
SpeakerInputs ==
    {<<Absent, Present("Guy")>>}

\* The /tts requests the model sends: a body that is JSON null; every text (or
\* none) with no language and no speaker; one text with every language, and
\* with the speakers.
TtsRequests ==
    {[route |-> "/tts", files |-> EmptyDict, json |-> JNull]} \cup
    {TtsRequest(text, Absent, Absent) : text \in Optional(TextInputs)} \cup
    {TtsRequest(Present(JStr(<<"y", "o">>)), language, Absent) :
        language \in {Present(l) : l \in LanguageInputs}} \cup
    {TtsRequest(Present(JStr(<<"y", "o">>)), ls[1], ls[2]) : ls \in SpeakerInputs}

Requests == TranscribeRequests \cup TtsRequests

\* What replicate.run returns: a structured result (a dict, with or without the
\* transcription and language fields), a plain string, or anything else (a list).
ReplicateOutputs ==
    {[t |-> "dict", v |-> << <<"transcription", JStr(<<"hello world">>)>>,
                             <<"language", JStr(<<"en">>)>> >>],
     [t |-> "dict", v |-> << <<"transcription", JStr(<<"hola">>)>> >>],
     [t |-> "dict", v |-> << <<"language", JStr(<<"en">>)>> >>],
     [t |-> "str", v |-> <<"plain text">>],
     [t |-> "list", v |-> <<JStr(<<"hello">>)>>]}

\* str() of the exceptions the backends raise.
ReplicateErrors == {<<"Invalid token">>}
EdgeErrors == {<<"No audio was received">>}

\* str() of the OSError a failing file operation raises.
DiskErrors == {<<"No space left on device">>}

\* str() of the OSError a failing open() raises.
OpenErrors == {<<"Too many open files">>}

-----------------------------------------------------------------------------
(* Responses *)

\* jsonify({"error": message}), status
ErrorResponse(message, status) ==
    [status |-> status, body |-> [error |-> JStr(message)]]

\* jsonify({"transcription": ..., "language": ...}), with Flask's default 200
TranscriptResponse(transcription, language) ==
    [status |-> 200, body |-> [transcription |-> transcription, language |-> language]]

\* send_file(path, mimetype='audio/mpeg'), with Flask's default 200
FileResponse(path) ==
    [status |-> 200, body |-> [file |-> path, mimetype |-> "audio/mpeg"]]

-----------------------------------------------------------------------------
(* The temporary directory *)

Exists(n) == n \in Names /\ tmpdir[n].exists

\* os.unlink of an existing file
Removed(dir, n) == [dir EXCEPT ![n] = NoFile]

\* open(name, "wb") and a write of data: the file is created if it is not there
Written(dir, n, data, id) ==
    [dir EXCEPT ![n] = File(data, IF dir[n].exists THEN dir[n].owner ELSE id)]

-----------------------------------------------------------------------------
(* Init and the arrival of a request *)

Init ==
    /\ pc = [r \in Reqs |-> "idle"]
    /\ req = [r \in Reqs |-> NoRequest]
    /\ served = [r \in Reqs |-> 0]
    /\ temp = [r \in Reqs |-> 0]
    /\ tmpdir = [n \in Names |-> NoFile]
    /\ touched = [n \in Names |-> {}]
    /\ output = [r \in Reqs |-> NoOutput]
    /\ exc = [r \in Reqs |-> NoExc]
    /\ voice = [r \in Reqs |-> ""]
    /\ calls = [r \in Reqs |-> 0]
    /\ backendArg = [r \in Reqs |-> NoArg]
    /\ unlinks = [r \in Reqs |-> 0]
    /\ loop = [r \in Reqs |-> NoLoop]
    /\ resp = [r \in Reqs |-> NoResp]
    /\ language_dict = language_dict_init
    /\ cec_pc = "init"
    /\ event = JNull
    /\ polled = <<>>
    /\ keys = <<>>

\* A request is known by its worker and its rank among the worker's requests.
Rid(r) == <<r, served[r]>>

RECURSIVE Sum(_, _)
Sum(f, S) == IF S = {} THEN 0 ELSE LET x == CHOOSE x \in S : TRUE IN f[x] + Sum(f, S \ {x})

\* Requests received so far.
Received == Sum(served, Reqs)

\* The handler's first statement for a route.
Entry(route) == IF route = "/transcribe" THEN "t_validate" ELSE "s_validate"

\* Flask hands worker r a request; the worker's locals start afresh.
Receive(r) ==
    /\ pc[r] \in {"idle", "done"}
    /\ Received < MaxRequests
    /\ \E q \in Requests :
        /\ req' = [req EXCEPT ![r] = q]
        /\ pc' = [pc EXCEPT ![r] = Entry(q.route)]
    /\ served' = [served EXCEPT ![r] = @ + 1]
    /\ temp' = [temp EXCEPT ![r] = 0]
    /\ output' = [output EXCEPT ![r] = NoOutput]
    /\ exc' = [exc EXCEPT ![r] = NoExc]
    /\ voice' = [voice EXCEPT ![r] = ""]
    /\ calls' = [calls EXCEPT ![r] = 0]
    /\ backendArg' = [backendArg EXCEPT ![r] = NoArg]
    /\ unlinks' = [unlinks EXCEPT ![r] = 0]
    /\ loop' = [loop EXCEPT ![r] = NoLoop]
    /\ resp' = [resp EXCEPT ![r] = NoResp]
    /\ UNCHANGED <<tmpdir, touched, language_dict, cecVars>>

\* return response
Return(r, response) ==
    /\ resp' = [resp EXCEPT ![r] = response]
    /\ pc' = [pc EXCEPT ![r] = "done"]

\* raise: control goes to the handler at `handler` with str(e) = message
Raise(r, message, handler) ==
    /\ exc' = [exc EXCEPT ![r] = message]
    /\ pc' = [pc EXCEPT ![r] = handler]

Goto(r, label) == pc' = [pc EXCEPT ![r] = label]

\* A file opened under a name chosen without looking: a file that has the name
\* is truncated.
CreateTemp_AnyName(r, n) ==
    /\ tmpdir' = Written(tmpdir, n, EmptyData, Rid(r))
    /\ touched' = [touched EXCEPT ![n] = IF tmpdir[n].exists THEN @ \cup {Rid(r)} ELSE {Rid(r)}]
    /\ temp' = [temp EXCEPT ![r] = n]

\* tempfile.NamedTemporaryFile(delete=False): a new, empty file under a name no
\* file of the directory has.
CreateTemp(r, n) ==
    /\ ~tmpdir[n].exists
    /\ tmpdir' = [tmpdir EXCEPT ![n] = File(EmptyData, Rid(r))]
    /\ touched' = [touched EXCEPT ![n] = {Rid(r)}]
    /\ temp' = [temp EXCEPT ![r] = n]

-----------------------------------------------------------------------------
(* POST /transcribe *)

\* lines 97-106: the 'file' field must be there, with a filename
T_Validate(r) ==
    /\ pc[r] = "t_validate"
    /\ IF "file" \notin DOMAIN req[r].files
       THEN Return(r, ErrorResponse(<<"No audio file provided">>, 400))
       ELSE IF req[r].files["file"].filename = ""
       THEN Return(r, ErrorResponse(<<"No file selected">>, 400))
       ELSE Goto(r, "t_create") /\ UNCHANGED resp
    /\ UNCHANGED <<req, served, temp, tmpdir, touched, output, exc, voice, calls,
                   backendArg, unlinks, loop, language_dict, cecVars>>

\* line 111: the temporary file is created, or creating it fails (OSError)
T_Create(r) ==
    /\ pc[r] = "t_create"
    /\ \/ /\ \E n \in Names : CreateTemp(r, n)
          /\ Goto(r, "t_save")
          /\ UNCHANGED exc
       \/ /\ \E m \in DiskErrors : Raise(r, m, "t_outer")
          /\ UNCHANGED <<tmpdir, touched, temp>>
    /\ UNCHANGED <<req, served, output, voice, calls, backendArg, unlinks, loop,
                   resp, language_dict, cecVars>>

\* line 112: the upload is written into the file, or writing fails; the with
\* block then closes the file (delete=False: it stays) and the exception goes to
\* the outer handler
T_Save(r) ==
    /\ pc[r] = "t_save"
    /\ \/ /\ tmpdir' = Written(tmpdir, temp[r],
                               WebmData(req[r].files["file"].stream), Rid(r))
          /\ touched' = [touched EXCEPT ![temp[r]] = @ \cup {Rid(r)}]
          /\ Goto(r, "t_run")
          /\ UNCHANGED exc
       \/ /\ \E m \in DiskErrors : Raise(r, m, "t_outer")
          /\ UNCHANGED <<tmpdir, touched>>
    /\ UNCHANGED <<req, served, temp, output, voice, calls, backendArg, unlinks,
                   loop, resp, language_dict, cecVars>>

\* The file is removed as soon as the call is made, while the backend reads it.
T_Run_ThenUnlink(r) ==
    /\ pc[r] = "t_run"
    /\ calls' = [calls EXCEPT ![r] = @ + 1]
    /\ backendArg' = [backendArg EXCEPT ![r] =
                        [t |-> "audio", v |-> tmpdir[temp[r]].data]]
    /\ tmpdir' = Removed(tmpdir, temp[r])
    /\ touched' = [touched EXCEPT ![temp[r]] = {}]
    /\ unlinks' = [unlinks EXCEPT ![r] = @ + 1]
    /\ Goto(r, "t_wait")
    /\ UNCHANGED <<req, served, temp, output, exc, voice, loop, resp,
                   language_dict, cecVars>>

\* lines 118-131: the file is opened for reading and replicate.run is invoked
\* with it; the worker then blocks in the call
T_Run(r) ==
    /\ pc[r] = "t_run"
    /\ IF Exists(temp[r])
       THEN /\ calls' = [calls EXCEPT ![r] = @ + 1]
            /\ backendArg' = [backendArg EXCEPT ![r] =
                                [t |-> "audio", v |-> tmpdir[temp[r]].data]]
            /\ touched' = [touched EXCEPT ![temp[r]] = @ \cup {Rid(r)}]
            /\ Goto(r, "t_wait")
            /\ UNCHANGED exc
       ELSE /\ Raise(r, <<"No such file or directory">>, "t_except")
            /\ UNCHANGED <<calls, backendArg, touched>>
    /\ UNCHANGED <<req, served, temp, tmpdir, output, voice, unlinks, loop, resp,
                   language_dict, cecVars>>

\* replicate.run returns
T_BackendReturn(r) ==
    /\ pc[r] = "t_wait"
    /\ \E o \in ReplicateOutputs : output' = [output EXCEPT ![r] = o]
    /\ Goto(r, "t_unlink")
    /\ UNCHANGED <<req, served, temp, tmpdir, touched, exc, voice, calls,
                   backendArg, unlinks, loop, resp, language_dict, cecVars>>

\* A failed call is made again.
T_BackendFault_Retry(r) ==
    /\ pc[r] = "t_wait"
    /\ Goto(r, "t_run")
    /\ UNCHANGED <<req, served, temp, tmpdir, touched, output, exc, voice, calls,
                   backendArg, unlinks, loop, resp, language_dict, cecVars>>

\* replicate.run raises
T_BackendFault(r) ==
    /\ pc[r] = "t_wait"
    /\ \E m \in ReplicateErrors : Raise(r, m, "t_except")
    /\ UNCHANGED <<req, served, temp, tmpdir, touched, output, voice, calls,
                   backendArg, unlinks, loop, resp, language_dict, cecVars>>

\* line 137: os.unlink(temp.name)
T_Unlink(r) ==
    /\ pc[r] = "t_unlink"
    /\ IF Exists(temp[r])
       THEN /\ tmpdir' = Removed(tmpdir, temp[r])
            /\ touched' = [touched EXCEPT ![temp[r]] = {}]
            /\ unlinks' = [unlinks EXCEPT ![r] = @ + 1]
            /\ Goto(r, "t_result")
            /\ UNCHANGED exc
       ELSE /\ Raise(r, <<"No such file or directory">>, "t_except")
            /\ UNCHANGED <<tmpdir, touched, unlinks>>
    /\ UNCHANGED <<req, served, temp, output, voice, calls, backendArg,
                   loop, resp, language_dict, cecVars>>

\* Every result is stringified, a structured one too.
Transcription_Stringified(o) == JStr(PyStr(o))

\* Only the two known shapes are read; any other result leaves the initial "".
Transcription_KnownShapes(o) ==
    IF o.t = "dict" /\ DictHas(o.v, "transcription")
    THEN DictGet(o.v, "transcription")
    ELSE IF o.t = "str" THEN JStr(o.v)
    ELSE JStr(<<>>)

\* lines 139-146: the transcription of a backend result
Transcription(o) ==
    IF o.t = "dict"
    THEN IF DictHas(o.v, "transcription")
         THEN DictGet(o.v, "transcription")
         ELSE JStr(PyStr(o))
    ELSE IF o.t = "str" THEN JStr(o.v)
    ELSE JStr(PyStr(o))

\* line 150: the language of a backend result
Language(o) ==
    IF o.t = "dict"
    THEN IF DictHas(o.v, "language") THEN DictGet(o.v, "language") ELSE JNull
    ELSE JNull

\* lines 139-151: the success response
T_Result(r) ==
    /\ pc[r] = "t_result"
    /\ Return(r, TranscriptResponse(Transcription(output[r]), Language(output[r])))
    /\ UNCHANGED <<req, served, temp, tmpdir, touched, output, exc, voice, calls,
                   backendArg, unlinks, loop, language_dict, cecVars>>

\* An inner handler that does not remove the file.
T_ExceptCleanup_Skipped(r) ==
    /\ pc[r] = "t_except"
    /\ Goto(r, "t_except_return")
    /\ UNCHANGED <<req, served, temp, tmpdir, touched, output, exc, voice, calls,
                   backendArg, unlinks, loop, resp, language_dict, cecVars>>

\* lines 156-157: the inner handler removes the file if it is still there
T_ExceptCleanup(r) ==
    /\ pc[r] = "t_except"
    /\ IF Exists(temp[r])
       THEN /\ tmpdir' = Removed(tmpdir, temp[r])
            /\ touched' = [touched EXCEPT ![temp[r]] = {}]
            /\ unlinks' = [unlinks EXCEPT ![r] = @ + 1]
       ELSE UNCHANGED <<tmpdir, touched, unlinks>>
    /\ Goto(r, "t_except_return")
    /\ UNCHANGED <<req, served, temp, output, exc, voice, calls,
                   backendArg, loop, resp, language_dict, cecVars>>

\* line 158: the inner handler's response
T_ExceptReturn(r) ==
    /\ pc[r] = "t_except_return"
    /\ Return(r, ErrorResponse(<<"Transcription failed: ">> \o exc[r], 500))
    /\ UNCHANGED <<req, served, temp, tmpdir, touched, output, exc, voice, calls,
                   backendArg, unlinks, loop, language_dict, cecVars>>

\* No outer handler: the exception leaves the view and Flask answers with its
\* own 500 page.
T_Outer_Propagates(r) ==
    /\ pc[r] = "t_outer"
    /\ Return(r, [status |-> 500, body |-> [html |-> JStr(<<"Internal Server Error">>)]])
    /\ UNCHANGED <<req, served, temp, tmpdir, touched, output, exc, voice, calls,
                   backendArg, unlinks, loop, language_dict, cecVars>>

\* lines 160-162: the outer handler's response
T_Outer(r) ==
    /\ pc[r] = "t_outer"
    /\ Return(r, ErrorResponse(<<"Server error: ">> \o exc[r], 500))
    /\ UNCHANGED <<req, served, temp, tmpdir, touched, output, exc, voice, calls,
                   backendArg, unlinks, loop, language_dict, cecVars>>

-----------------------------------------------------------------------------
(* Voice resolution (generate_tts_audio, lines 70-76) *)

\* No fallback: the language is used as requested.
ResolveLanguage_NoFallback(cat, language) == language

\* A lookup that ignores case: the requested language is capitalised first.
ResolveLanguage_AnyCase(cat, language) ==
    LET capitalised == IF language = "hindi" THEN "Hindi" ELSE language
    IN  IF capitalised \notin DOMAIN cat THEN "English" ELSE capitalised

\* lines 70-72: a language that is no key of the catalog becomes English
ResolveLanguage(cat, language) ==
    IF language \notin DOMAIN cat THEN "English" ELSE language

\* line 75: the first speaker of the language
FirstSpeaker(cat, language) == DictKeys(cat[language])[1]

\* lines 75-76: the lookups succeed (no KeyError, no IndexError)
Resolvable(cat, language) ==
    LET l == ResolveLanguage(cat, language)
    IN  l \in DOMAIN cat /\ Len(cat[l]) > 0

\* lines 70-76: the voice for a requested language
ResolveVoice(cat, language) ==
    LET l == ResolveLanguage(cat, language)
        speaker_name == FirstSpeaker(cat, l)
    IN  DictGet(cat[l], speaker_name)

-----------------------------------------------------------------------------
(* POST /tts *)

\* line 169: data = request.get_json()
Data(r) == req[r].json

\* line 173: text = data['text']
Text(r) == Data(r).v["text"]

\* line 174: language = data.get('language', 'English')
LanguageOf(r) ==
    IF "language" \in DOMAIN Data(r).v THEN Data(r).v["language"] ELSE "English"

\* not data: None, or an empty dict
Falsy(data) == data.t = "null" \/ (data.t = "dict" /\ DOMAIN data.v = {})

\* lines 169-177: the text must be there and not blank; text.strip() of a value
\* that is no str raises AttributeError, which the outer handler catches
S_Validate(r) ==
    /\ pc[r] = "s_validate"
    /\ IF Falsy(Data(r)) \/ "text" \notin DOMAIN Data(r).v
       THEN Return(r, ErrorResponse(<<"No text provided">>, 400)) /\ UNCHANGED exc
       ELSE IF ~IsStr(Text(r))
       THEN Raise(r, <<"object has no attribute 'strip'">>, "s_outer") /\ UNCHANGED resp
       ELSE IF Strip(Text(r).v) = <<>>
       THEN Return(r, ErrorResponse(<<"Empty text provided">>, 400)) /\ UNCHANGED exc
       ELSE Goto(r, "s_loop") /\ UNCHANGED <<resp, exc>>
    /\ UNCHANGED <<req, served, temp, tmpdir, touched, output, voice, calls,
                   backendArg, unlinks, loop, language_dict, cecVars>>

\* lines 182-183: asyncio.new_event_loop() makes a loop for this request, which
\* set_event_loop makes the thread's current loop
S_NewLoop(r) ==
    /\ pc[r] = "s_loop"
    /\ loop' = [loop EXCEPT ![r] = Loop(Rid(r), "open")]
    /\ Goto(r, "s_resolve")
    /\ UNCHANGED <<req, served, temp, tmpdir, touched, output, exc, voice, calls,
                   backendArg, unlinks, resp, language_dict, cecVars>>

\* An unknown language is entered in the catalog with the speakers of English
\* (language_dict.setdefault) instead of being replaced in a local variable.
S_Resolve_Caches(r) ==
    /\ pc[r] = "s_resolve"
    /\ language_dict' =
          IF LanguageOf(r) \in DOMAIN language_dict
          THEN language_dict
          ELSE (LanguageOf(r) :> language_dict["English"]) @@ language_dict
    /\ voice' = [voice EXCEPT ![r] = ResolveVoice(language_dict, LanguageOf(r))]
    /\ Goto(r, "s_create")
    /\ UNCHANGED <<req, served, temp, tmpdir, touched, output, exc, calls,
                   backendArg, unlinks, loop, resp, cecVars>>

\* lines 70-80: the voice is resolved and the Communicate object built
S_Resolve(r) ==
    /\ pc[r] = "s_resolve"
    /\ IF Resolvable(language_dict, LanguageOf(r))
       THEN /\ voice' = [voice EXCEPT ![r] = ResolveVoice(language_dict, LanguageOf(r))]
            /\ Goto(r, "s_create")
            /\ UNCHANGED exc
       ELSE /\ Raise(r, <<"KeyError">>, "s_finally")
            /\ UNCHANGED voice
    /\ UNCHANGED <<req, served, temp, tmpdir, touched, output, calls,
                   backendArg, unlinks, loop, resp, language_dict, cecVars>>

\* line 83: the temporary file for the audio is created, or creating it fails
S_Create(r) ==
    /\ pc[r] = "s_create"
    /\ \/ /\ \E n \in Names : CreateTemp(r, n)
          /\ Goto(r, "s_save")
          /\ UNCHANGED exc
       \/ /\ \E m \in DiskErrors : Raise(r, m, "s_finally")
          /\ UNCHANGED <<tmpdir, touched, temp>>
    /\ UNCHANGED <<req, served, output, voice, calls, backendArg, unlinks, loop,
                   resp, language_dict, cecVars>>

\* line 84: communicate.save is awaited: the synthesis backend is invoked with
\* the text and the voice
S_Save(r) ==
    /\ pc[r] = "s_save"
    /\ calls' = [calls EXCEPT ![r] = @ + 1]
    /\ backendArg' = [backendArg EXCEPT ![r] =
                        [t |-> "speech", text |-> Text(r).v, voice |-> voice[r]]]
    /\ Goto(r, "s_wait")
    /\ UNCHANGED <<req, served, temp, tmpdir, touched, output, exc, voice,
                   unlinks, loop, resp, language_dict, cecVars>>

\* the backend's audio is written to the file and save returns
S_BackendReturn(r) ==
    /\ pc[r] = "s_wait"
    /\ tmpdir' = Written(tmpdir, temp[r],
                         Mp3Data(backendArg[r].text, backendArg[r].voice), Rid(r))
    /\ touched' = [touched EXCEPT ![temp[r]] = @ \cup {Rid(r)}]
    /\ Goto(r, "s_send")
    /\ UNCHANGED <<req, served, temp, output, exc, voice, calls, backendArg,
                   unlinks, loop, resp, language_dict, cecVars>>

\* the backend fails and save raises
S_BackendFault(r) ==
    /\ pc[r] = "s_wait"
    /\ \E m \in EdgeErrors : Raise(r, m, "s_finally")
    /\ UNCHANGED <<req, served, temp, tmpdir, touched, output, voice, calls,
                   backendArg, unlinks, loop, resp, language_dict, cecVars>>

\* lines 189-194: send_file opens the file and builds the response, or opening
\* the file fails (OSError); either way control goes to the finally clause
S_Send(r) ==
    /\ pc[r] = "s_send"
    /\ \/ IF Exists(temp[r])
          THEN /\ touched' = [touched EXCEPT ![temp[r]] = @ \cup {Rid(r)}]
               /\ UNCHANGED exc
          ELSE /\ exc' = [exc EXCEPT ![r] = <<"No such file or directory">>]
               /\ UNCHANGED touched
       \/ /\ \E m \in OpenErrors : exc' = [exc EXCEPT ![r] = m]
          /\ UNCHANGED touched
    /\ Goto(r, "s_finally")
    /\ UNCHANGED <<req, served, temp, tmpdir, output, voice, calls, backendArg,
                   unlinks, loop, resp, language_dict, cecVars>>

\* The loop is closed after the try body, not in a finally clause.
S_Finally_CloseOnSuccess(r) ==
    /\ pc[r] = "s_finally"
    /\ IF exc[r] = NoExc
       THEN /\ loop' = [loop EXCEPT ![r] = Loop(@.id, "closed")]
            /\ resp' = [resp EXCEPT ![r] = FileResponse(temp[r])]
            /\ Goto(r, "s_stream")
       ELSE Goto(r, "s_outer") /\ UNCHANGED <<resp, loop>>
    /\ UNCHANGED <<req, served, temp, tmpdir, touched, output, exc, voice, calls,
                   backendArg, unlinks, language_dict, cecVars>>

\* lines 195-196: finally: the loop is closed; then the handler returns the
\* response that send_file built, or the pending exception goes to the outer
\* handler
S_Finally(r) ==
    /\ pc[r] = "s_finally"
    /\ loop' = [loop EXCEPT ![r] = Loop(@.id, "closed")]
    /\ IF exc[r] = NoExc
       THEN resp' = [resp EXCEPT ![r] = FileResponse(temp[r])] /\ Goto(r, "s_stream")
       ELSE Goto(r, "s_outer") /\ UNCHANGED resp
    /\ UNCHANGED <<req, served, temp, tmpdir, touched, output, exc, voice, calls,
                   backendArg, unlinks, language_dict, cecVars>>

\* lines 189-194: the response send_file built wraps the open file; once the
\* handler has returned, the worker reads the file and streams it to the client
S_Stream(r) ==
    /\ pc[r] = "s_stream"
    /\ touched' = [touched EXCEPT ![temp[r]] = @ \cup {Rid(r)}]
    /\ Goto(r, "done")
    /\ UNCHANGED <<req, served, temp, tmpdir, output, exc, voice, calls,
                   backendArg, unlinks, loop, resp, language_dict, cecVars>>

\* No outer handler: the exception leaves the view and Flask answers with its
\* own 500 page.
S_Outer_Propagates(r) ==
    /\ pc[r] = "s_outer"
    /\ Return(r, [status |-> 500, body |-> [html |-> JStr(<<"Internal Server Error">>)]])
    /\ UNCHANGED <<req, served, temp, tmpdir, touched, output, exc, voice, calls,
                   backendArg, unlinks, loop, language_dict, cecVars>>

\* lines 198-200: the outer handler's response
S_Outer(r) ==
    /\ pc[r] = "s_outer"
    /\ Return(r, ErrorResponse(<<"TTS generation failed: ">> \o exc[r], 500))
    /\ UNCHANGED <<req, served, temp, tmpdir, touched, output, exc, voice, calls,
                   backendArg, unlinks, loop, language_dict, cecVars>>

-----------------------------------------------------------------------------
(* The system *)

Next ==
    \E r \in Reqs :
        \/ Receive(r)
        \/ T_Validate(r)
        \/ T_Create(r)
        \/ T_Save(r)
        \/ T_Run(r)
        \/ T_BackendReturn(r)
        \/ T_BackendFault(r)
        \/ T_Unlink(r)
        \/ T_Result(r)
        \/ T_ExceptCleanup(r)
        \/ T_ExceptReturn(r)
        \/ T_Outer(r)
        \/ S_Validate(r)
        \/ S_NewLoop(r)
        \/ S_Resolve(r)
        \/ S_Create(r)
        \/ S_Save(r)
        \/ S_BackendReturn(r)
        \/ S_BackendFault(r)
        \/ S_Send(r)
        \/ S_Finally(r)
        \/ S_Stream(r)
        \/ S_Outer(r)

Spec == Init /\ [][Next]_vars

\* The steps of worker r's own handler: everything but the arrival of a request
\* and the backend's answer.
HandlerStep(r) ==
    \/ T_Validate(r) \/ T_Create(r) \/ T_Save(r) \/ T_Run(r) \/ T_Unlink(r)
    \/ T_Result(r) \/ T_ExceptCleanup(r) \/ T_ExceptReturn(r) \/ T_Outer(r)
    \/ S_Validate(r) \/ S_NewLoop(r) \/ S_Resolve(r) \/ S_Create(r) \/ S_Save(r)
    \/ S_Send(r) \/ S_Finally(r) \/ S_Stream(r) \/ S_Outer(r)

\* A worker thread that can take a step of its handler does so.  Nothing
\* obliges a request to arrive or a backend to answer.
FairSpec == Spec /\ \A r \in Reqs : WF_vars(HandlerStep(r))

-----------------------------------------------------------------------------
(* Voice resolution on its own: a /tts request of worker 1 that has passed     *)
(* validation, for every language and speaker of the catalog and some that    *)
(* are not in it.                                                             *)

Speakers(cat) == UNION {{cat[l][i][1] : i \in 1..Len(cat[l])} : l \in DOMAIN cat}

VoiceLanguages ==
    DOMAIN language_dict_init \cup {"hindi", "ENGLISH", "Klingon", ""}

VoiceSpeakers == Speakers(language_dict_init) \cup {"Nobody", ""}

InitVoice ==
    /\ \E language \in Optional(VoiceLanguages), speaker \in Optional(VoiceSpeakers) :
          req = [r \in Reqs |->
                    IF r = 1
                    THEN TtsRequest(Present(JStr(<<"y", "o">>)), language, speaker)
                    ELSE NoRequest]
    /\ pc = [r \in Reqs |-> IF r = 1 THEN "s_resolve" ELSE "idle"]
    /\ served = [r \in Reqs |-> IF r = 1 THEN 1 ELSE 0]
    /\ loop = [r \in Reqs |-> IF r = 1 THEN Loop(<<1, 1>>, "open") ELSE NoLoop]
    /\ temp = [r \in Reqs |-> 0]
    /\ tmpdir = [n \in Names |-> NoFile]
    /\ touched = [n \in Names |-> {}]
    /\ output = [r \in Reqs |-> NoOutput]
    /\ exc = [r \in Reqs |-> NoExc]
    /\ voice = [r \in Reqs |-> ""]
    /\ calls = [r \in Reqs |-> 0]
    /\ backendArg = [r \in Reqs |-> NoArg]
    /\ unlinks = [r \in Reqs |-> 0]
    /\ resp = [r \in Reqs |-> NoResp]
    /\ language_dict = language_dict_init
    /\ cec_pc = "init"
    /\ event = JNull
    /\ polled = <<>>
    /\ keys = <<>>

NextVoice == S_Resolve(1)

SpecVoice == InitVoice /\ [][NextVoice]_vars

-----------------------------------------------------------------------------
(* The remote-control script of src/cec-remote.py: it polls the CEC adapter    *)
(* for events and turns the five navigation codes into key presses.            *)

\* A member of cec.CEC_USER_CONTROL_CODE.
Code(name) == [t |-> "code", v |-> name]

\* What cec.get_event() can return: None, a navigation code, another code.
CecEvents ==
    {JNull} \cup {Code(c) : c \in {"UP", "DOWN", "LEFT", "RIGHT", "SELECT",
                                   "EXIT", "PLAY"}}

\* No key: the elif chain has no branch for the event.
NoKey == ""

\* Left and right are exchanged.
KeyFor_Mirrored(e) ==
    IF e = Code("UP") THEN "Up"
    ELSE IF e = Code("DOWN") THEN "Down"
    ELSE IF e = Code("LEFT") THEN "Right"
    ELSE IF e = Code("RIGHT") THEN "Left"
    ELSE IF e = Code("SELECT") THEN "Return"
    ELSE NoKey

\* lines 14-23: the key of an event
KeyFor(e) ==
    IF e = Code("UP") THEN "Up"
    ELSE IF e = Code("DOWN") THEN "Down"
    ELSE IF e = Code("LEFT") THEN "Left"
    ELSE IF e = Code("RIGHT") THEN "Right"
    ELSE IF e = Code("SELECT") THEN "Return"
    ELSE NoKey

\* lines 6-7: send_key runs xdotool with the key and waits for it
send_key(key) == keys' = Append(keys, key)

\* line 4: cec.init()
Cec_Init ==
    /\ cec_pc = "init"
    /\ cec_pc' = "poll"
    /\ UNCHANGED <<event, polled, keys, serverVars>>

\* line 10: event = cec.get_event()
Cec_GetEvent ==
    /\ cec_pc = "poll"
    /\ Len(polled) < MaxEvents
    /\ \E e \in CecEvents :
        /\ event' = e
        /\ polled' = Append(polled, e)
    /\ cec_pc' = "dispatch"
    /\ UNCHANGED <<keys, serverVars>>

\* lines 11-23: None is skipped; a navigation code sends its key; any other
\* code falls through the elif chain
Cec_Dispatch ==
    /\ cec_pc = "dispatch"
    /\ IF event = JNull
       THEN UNCHANGED keys
       ELSE IF KeyFor(event) # NoKey
       THEN send_key(KeyFor(event))
       ELSE UNCHANGED keys
    /\ cec_pc' = "poll"
    /\ UNCHANGED <<event, polled, serverVars>>

\* The script on its own: the gateway, another process, stays as it started.
NextCec ==
    \/ Cec_Init
    \/ Cec_GetEvent
    \/ Cec_Dispatch

SpecCec == Init /\ [][NextCec]_vars

-----------------------------------------------------------------------------
(* Vocabulary of the properties *)

\* The handler of worker r has returned its response.
Done(r) == pc[r] = "done"

\* The temporary file the current request of worker r created is in the directory.
OwnArtifactExists(r) ==
    /\ temp[r] # 0
    /\ tmpdir[temp[r]].exists
    /\ tmpdir[temp[r]].owner = Rid(r)

\* The request that owns a file is still being handled.
InFlight(id) == served[id[1]] = id[2] /\ ~Done(id[1])

\* A string made of whitespace only (the empty string included).
Blank(s) == \A i \in 1..Len(s) : s[i] \in Whitespace

\* A /transcribe request with no file or an empty filename; a /tts request with
\* no text, or with an empty or whitespace-only text.
EmptyRequest(q) ==
    IF q.route = "/transcribe"
    THEN "file" \notin DOMAIN q.files \/ q.files["file"].filename = ""
    ELSE /\ q.route = "/tts"
         /\ \/ q.json.t = "null"
            \/ "text" \notin DOMAIN q.json.v
            \/ (IsStr(q.json.v["text"]) /\ Blank(q.json.v["text"].v))

\* A response body that is an object with an 'error' string and nothing else.
ErrorShaped(body) == DOMAIN body = {"error"} /\ IsStr(body.error)

\* s contains sub as a substring.
Contains(s, sub) ==
    \E i \in 1..(Len(s) - Len(sub) + 1) : SubSeq(s, i, i + Len(sub) - 1) = sub

-----------------------------------------------------------------------------
(* C1: Cleanup invariant.  Every temporary file in the directory belongs to   *)
(* a request that is still being handled: once a request has returned its    *)
(* response, whatever the outcome, the file it created is gone.               *)
C1_CleanupInvariant ==
    \A n \in Names : tmpdir[n].exists => InFlight(tmpdir[n].owner)

(* C2: Validation rejects empties.  A /transcribe request with no file or an  *)
(* empty filename, and a /tts request with missing, empty or whitespace-only  *)
(* text, never gets past validation: the backend is not invoked for it, and   *)
(* the response, once returned, has status 400.                               *)
C2_ValidationRejectsEmpties ==
    \A r \in Reqs :
        EmptyRequest(req[r]) =>
            /\ calls[r] = 0
            /\ pc[r] \in {"t_validate", "s_validate", "done"}
            /\ Done(r) => resp[r].status = 400

\* A whitespace-only text and an empty filename have both been rejected.
C2_Witness ==
    \E r, u \in Reqs :
        /\ Done(r) /\ req[r].route = "/tts" /\ req[r].json.t = "dict"
        /\ "text" \in DOMAIN req[r].json.v
        /\ req[r].json.v["text"] = JStr(<<"\t", " ">>)
        /\ resp[r].status = 400 /\ calls[r] = 0
        /\ Done(u) /\ req[u].route = "/transcribe"
        /\ "file" \in DOMAIN req[u].files
        /\ resp[u].status = 400 /\ calls[u] = 0

(* C3: Uniform error shape.  Every request that ended after a rejection or a  *)
(* fault, and every response that is not a success, has status 400 or 500     *)
(* and a body that is an object with an 'error' string.                       *)
C3_UniformErrorShape ==
    \A r \in Reqs :
        Done(r) /\ (EmptyRequest(req[r]) \/ exc[r] # NoExc \/ resp[r].status # 200) =>
            /\ resp[r].status \in {400, 500}
            /\ ErrorShaped(resp[r].body)

\* A resource fault of /transcribe and a backend fault of /tts have both ended
\* in an error response.
C3_Witness ==
    \E r, u \in Reqs :
        /\ Done(r) /\ req[r].route = "/transcribe" /\ exc[r] \in DiskErrors
        /\ resp[r].status = 500
        /\ Done(u) /\ req[u].route = "/tts" /\ exc[u] \in EdgeErrors
        /\ resp[u].status = 500

\* The language and the speaker a /tts request names, if it names them.
Requested(q, key) ==
    IF q.json.t = "dict" /\ key \in DOMAIN q.json.v THEN Present(q.json.v[key]) ELSE Absent

\* The language a /tts request asks for: the named one, English if it names none.
AskedLanguage(q) ==
    IF Requested(q, "language").has THEN Requested(q, "language").v ELSE "English"

\* The voice of the first speaker of a language of the startup catalog.
FirstVoice(language) == language_dict_init[language][1][2]

(* C4: Voice resolution totality.  For every requested language (a key of the *)
(* catalog or not, or none) and every speaker (known, unknown or none),       *)
(* voice resolution ends without raising, with a voice identifier that is a   *)
(* value of the catalog.                                                      *)
C4_VoiceResolutionTotal ==
    \A r \in Reqs :
        req[r].route = "/tts" /\ pc[r] \notin {"s_validate", "s_loop", "s_resolve", "done"} =>
            /\ exc[r] # <<"KeyError">>
            /\ voice[r] \in CatalogVoices(language_dict_init)

\* Resolution has run for a language and a speaker that the catalog does not have.
C4_Witness ==
    /\ pc[1] = "s_create"
    /\ Requested(req[1], "language") = Present("Klingon")
    /\ Requested(req[1], "speaker") = Present("Nobody")
    /\ voice[1] \in CatalogVoices(language_dict_init)

(* C5: Fallback.  The synthesis backend is invoked with the voice of the      *)
(* first speaker of English (en-US-JennyNeural) for every language that is    *)
(* not an exact key of the catalog, and with the voice of the first speaker   *)
(* of the language for one that is; and no request is rejected (status 400)   *)
(* for its language.                                                          *)
C5_Fallback ==
    \A r \in Reqs :
        /\ backendArg[r].t = "speech" =>
              backendArg[r].voice =
                  IF AskedLanguage(req[r]) \in DOMAIN language_dict_init
                  THEN FirstVoice(AskedLanguage(req[r]))
                  ELSE "en-US-JennyNeural"
        /\ req[r].route = "/tts" /\ ~EmptyRequest(req[r]) /\ Done(r) =>
              resp[r].status # 400
        /\ req[r].route = "/tts" /\ Done(r) /\ exc[r] = NoExc /\ ~EmptyRequest(req[r]) =>
              resp[r].status = 200 /\ backendArg[r].t = "speech"

\* A request for Klingon and one for hindi have succeeded with Jenny's voice.
C5_Witness ==
    \E r, u \in Reqs :
        /\ Done(r) /\ Requested(req[r], "language") = Present("Klingon")
        /\ resp[r].status = 200 /\ backendArg[r].voice = "en-US-JennyNeural"
        /\ Done(u) /\ Requested(req[u], "language") = Present("hindi")
        /\ resp[u].status = 200 /\ backendArg[u].voice = "en-US-JennyNeural"

(* C6: End-to-end transcription.  When the backend call of a /transcribe      *)
(* request returns a structured result with a transcription t and a language  *)
(* l, the response has status 200, transcription t and language l, and the    *)
(* request's temporary file is gone when the response is returned.            *)
C6_EndToEndTranscription ==
    \A r \in Reqs :
        /\ Done(r) /\ req[r].route = "/transcribe" /\ output[r].t = "dict"
        /\ DictHas(output[r].v, "transcription") /\ DictHas(output[r].v, "language")
        => /\ resp[r].status = 200
           /\ DOMAIN resp[r].body = {"transcription", "language"}
           /\ resp[r].body.transcription = DictGet(output[r].v, "transcription")
           /\ resp[r].body.language = DictGet(output[r].v, "language")
           /\ ~OwnArtifactExists(r)

\* The result {"transcription": "hello world", "language": "en"} has been returned.
C6_Witness ==
    \E r \in Reqs :
        /\ Done(r) /\ req[r].route = "/transcribe" /\ resp[r].status = 200
        /\ resp[r].body = [transcription |-> JStr(<<"hello world">>),
                           language |-> JStr(<<"en">>)]
        /\ unlinks[r] = 1

\* Where a handler holds a temporary file it has yet to write, read or remove.
UsingFile ==
    {"t_save", "t_run", "t_wait", "t_unlink", "s_save", "s_wait", "s_send",
     "s_stream"}

\* The content of a file comes from the request r alone.
ContentOf(data, r) ==
    \/ data.kind = "empty"
    \/ /\ data.kind = "webm" /\ req[r].route = "/transcribe"
       /\ data.audio = req[r].files["file"].stream
    \/ /\ data.kind = "mp3" /\ req[r].route = "/tts"
       /\ data.text = req[r].json.v["text"].v

\* Files are told apart, and used by their creators only.
Isolated ==
    /\ \A n \in Names : tmpdir[n].exists => touched[n] = {tmpdir[n].owner}
    /\ \A r \in Reqs : pc[r] \in UsingFile => OwnArtifactExists(r)
    /\ \A r, u \in Reqs :
          r # u /\ pc[r] \in UsingFile /\ pc[u] \in UsingFile => temp[r] # temp[u]
    /\ \A r \in Reqs :
          OwnArtifactExists(r) /\ ~Done(r) => ContentOf(tmpdir[temp[r]].data, r)

\* A step creates, writes or removes a file only if it is a step of the request
\* that owns the file.
OwnFilesOnly ==
    \A n \in Names :
        tmpdir'[n] # tmpdir[n] =>
            \E r \in Reqs :
                /\ pc'[r] # pc[r]
                /\ \A u \in Reqs \ {r} : pc'[u] = pc[u]
                /\ IF tmpdir[n].exists
                   THEN tmpdir[n].owner = Rid(r)
                   ELSE tmpdir'[n].owner = Rid(r)

(* C7: Concurrent isolation.  In every interleaving of two requests, the two  *)
(* hold different files, every file is written and read by the request that   *)
(* created it and by no other and holds that request's content, and every     *)
(* change to a file (its removal included) is a step of its own request: no    *)
(* step of one request, a failure included, touches the other's file.          *)
C7_ConcurrentIsolation == []Isolated /\ [][OwnFilesOnly]_vars

\* Both requests hold a file while one of them handles a backend fault.
C7_Witness ==
    /\ pc[1] = "t_except" /\ exc[1] \in ReplicateErrors
    /\ pc[2] \in UsingFile
    /\ OwnArtifactExists(1) /\ OwnArtifactExists(2)
    /\ temp[1] # temp[2]

(* C8: Transcription backend fault.  When replicate.run raises, the request    *)
(* ends with status 500 and an error message that contains the exception's    *)
(* message, and the temporary file is gone before the response is returned.    *)
C8_TranscriptionBackendFault ==
    \A r \in Reqs :
        req[r].route = "/transcribe" /\ exc[r] \in ReplicateErrors =>
            /\ pc[r] \in {"t_except", "t_except_return", "done"}
            /\ pc[r] \in {"t_except_return", "done"} => ~OwnArtifactExists(r)
            /\ Done(r) =>
                  /\ resp[r].status = 500
                  /\ ErrorShaped(resp[r].body)
                  /\ Contains(resp[r].body.error.v, exc[r])

\* A backend fault has been answered, after one unlink.
C8_Witness ==
    \E r \in Reqs :
        /\ Done(r) /\ req[r].route = "/transcribe" /\ exc[r] = <<"Invalid token">>
        /\ calls[r] = 1 /\ unlinks[r] = 1 /\ resp[r].status = 500

(* C9: Timeout.  Every request that has dispatched a backend call eventually  *)
(* reaches a terminal outcome, whether or not the backend ever answers.       *)
C9_Timeout ==
    \A r \in Reqs : (pc[r] \in {"t_wait", "s_wait"}) ~> Done(r)

(* C10: Speaker selection.  When a synthesis request names a speaker that is  *)
(* a key of the resolved language's speaker mapping, the backend is invoked   *)
(* with that speaker's voice; otherwise with the voice of the first speaker.  *)
C10_SpeakerSelection ==
    \A r \in Reqs :
        backendArg[r].t = "speech" =>
            LET l == IF AskedLanguage(req[r]) \in DOMAIN language_dict_init
                     THEN AskedLanguage(req[r]) ELSE "English"
                speaker == Requested(req[r], "speaker")
            IN  backendArg[r].voice =
                    IF speaker.has /\ DictHas(language_dict_init[l], speaker.v)
                    THEN DictGet(language_dict_init[l], speaker.v)
                    ELSE FirstVoice(l)

\* The current request of worker r has created a temporary file.
Acquired(r) == temp[r] # 0

(* C11: Exactly one release per acquire.  The file a request created is       *)
(* unlinked exactly once by the time the request has been answered; it is      *)
(* never unlinked twice.                                                       *)
C11_ExactlyOneRelease ==
    \A r \in Reqs :
        /\ unlinks[r] <= 1
        /\ Done(r) /\ Acquired(r) => unlinks[r] = 1

(* C12: Release on internal fault.  When a fault that is no backend fault     *)
(* occurs after the file was created (the upload cannot be written, the        *)
(* synthesis cannot be saved), the request ends with status 500 and its file   *)
(* is gone.                                                                    *)
C12_ReleaseOnInternalFault ==
    \A r \in Reqs :
        Done(r) /\ Acquired(r) /\ exc[r] # NoExc /\ exc[r] \notin ReplicateErrors =>
            /\ resp[r].status = 500
            /\ ~OwnArtifactExists(r)

\* Where a request waits for the answer of the backend it has invoked.
Dispatched == {"t_wait", "s_wait"}

\* Where a request is once a backend call of it has failed.
Failing == {"t_except", "t_except_return", "s_finally", "s_outer", "done"}

BackendFaults == ReplicateErrors \cup EdgeErrors

\* A request has invoked its backend at most once, and is on its way to the
\* failure response once the backend has failed.
AtMostOneCall ==
    \A r \in Reqs :
        /\ calls[r] <= 1
        /\ exc[r] \in BackendFaults => pc[r] \in Failing /\ calls[r] = 1
        /\ exc[r] \in BackendFaults /\ Done(r) => resp[r].status = 500

\* A step that takes a request into the dispatched state is the request's first
\* invocation, made before any fault.
DispatchOnce ==
    \A r \in Reqs :
        pc'[r] \in Dispatched /\ pc[r] \notin Dispatched =>
            calls[r] = 0 /\ calls'[r] = 1 /\ exc[r] = NoExc

(* C13: No retries.  Within one request the backend is invoked at most once;  *)
(* after a backend fault the request goes on to its failure response and no    *)
(* step takes it into the dispatched state again.                              *)
C13_NoRetries == []AtMostOneCall /\ [][DispatchOnce]_vars

\* A transcription and a synthesis have both failed in the backend, each after
\* one invocation.
C13_Witness ==
    \E r, u \in Reqs :
        /\ Done(r) /\ req[r].route = "/transcribe" /\ exc[r] \in ReplicateErrors
        /\ Done(u) /\ req[u].route = "/tts" /\ exc[u] \in EdgeErrors
        /\ calls[r] = 1 /\ calls[u] = 1
        /\ resp[r].status = 500 /\ resp[u].status = 500

\* Where the next step of a request writes or reads its file, or ends a write
\* or a read of it: the upload is saved, the file is opened for the backend,
\* the backend reads it, the synthesis is saved into it, send_file opens it,
\* the response is streamed from it.
Accessing == {"t_save", "t_run", "t_wait", "s_wait", "s_send", "s_stream"}

\* Where a request is once it has removed its file: it builds its response.
Released == {"t_result", "t_except_return", "done"}

\* A request that has removed its file is past every use of it.
ReleasedLast ==
    \A r \in Reqs : unlinks[r] > 0 => pc[r] \in Released

\* A step that uses the file finds it in place and not yet removed; a step that
\* removes it is taken when no use of it is under way.
UseBeforeRelease ==
    \A r \in Reqs :
        /\ pc[r] \in Accessing /\ pc'[r] # pc[r] =>
              unlinks[r] = 0 /\ OwnArtifactExists(r)
        /\ unlinks'[r] > unlinks[r] =>
              pc[r] \notin Accessing /\ pc'[r] \in Released

(* C14: Release ordering.  Within one request the file is removed only after  *)
(* every write to it and read of it has ended (the upload's save, the          *)
(* backend's read, the synthesis's save, the streaming of the response), and   *)
(* no step writes or reads the file after its removal.                         *)
C14_ReleaseOrdering == []ReleasedLast /\ [][UseBeforeRelease]_vars

\* One request has removed its file after the backend read it, while another
\* streams its own file.
C14_Witness ==
    \E r, u \in Reqs :
        /\ pc[r] = "t_result" /\ calls[r] = 1 /\ unlinks[r] = 1
        /\ ~tmpdir[temp[r]].exists
        /\ pc[u] = "s_stream" /\ OwnArtifactExists(u)

\* A backend result that is neither a dict with a transcription nor a str.
Unrecognized(o) ==
    /\ o.t \in {"dict", "list"}
    /\ o.t = "dict" => ~DictHas(o.v, "transcription")

(* C15: Unrecognized result shape.  When the backend returns a result that is *)
(* neither a structured result with a transcription nor a plain string, the    *)
(* response has status 200 and the transcription is str() of the result; the   *)
(* language is the result's language field if it is structured and has one,    *)
(* and null otherwise.                                                         *)
C15_UnrecognizedShape ==
    \A r \in Reqs :
        Done(r) /\ req[r].route = "/transcribe" /\ Unrecognized(output[r]) =>
            /\ resp[r].status = 200
            /\ DOMAIN resp[r].body = {"transcription", "language"}
            /\ resp[r].body.transcription = JStr(PyStr(output[r]))
            /\ resp[r].body.language =
                  IF output[r].t = "dict" /\ DictHas(output[r].v, "language")
                  THEN DictGet(output[r].v, "language")
                  ELSE JNull

\* The results ['hello'] and {'language': 'en'} have been answered with their
\* str().
C15_Witness ==
    \E r, u \in Reqs :
        /\ Done(r) /\ output[r].t = "list"
        /\ resp[r] = TranscriptResponse(JStr(<<"[", "'", "hello", "'", "]">>), JNull)
        /\ Done(u) /\ output[u].t = "dict"
        /\ resp[u] = TranscriptResponse(
                        JStr(<<"{", "'", "language", "': ", "'", "en", "'", "}">>),
                        JStr(<<"en">>))

\* Where a request is while one of its handler's except clauses (or the finally
\* clause on the way to one) deals with an exception.
Handling == {"t_except", "t_except_return", "t_outer", "s_finally", "s_outer"}

(* C16: Catch-all.  An exception raised in a handler, the failure to create   *)
(* the temporary file included, is dealt with by the handler's own except      *)
(* clauses and answered with status 500 and the handler's error message; the   *)
(* worker is then ready for its next request.                                  *)
C16_CatchAll ==
    \A r \in Reqs :
        /\ exc[r] # NoExc => pc[r] \in Handling \cup {"done"}
        /\ exc[r] # NoExc /\ Done(r) =>
              /\ resp[r].status = 500
              /\ ErrorShaped(resp[r].body)
              /\ Contains(resp[r].body.error.v, exc[r])
        /\ Done(r) /\ Received < MaxRequests => ENABLED Receive(r)

\* A worker whose first request failed before its file was written (the empty
\* file is still there) has answered its second request with 200.
C16_Witness ==
    \E r \in Reqs, n \in Names :
        /\ tmpdir[n].exists /\ tmpdir[n].owner = <<r, 1>> /\ tmpdir[n].data = EmptyData
        /\ served[r] = 2 /\ Done(r) /\ resp[r].status = 200

\* Where a /tts request runs on its event loop, up to the finally clause.
OnLoop == {"s_resolve", "s_create", "s_save", "s_wait", "s_send", "s_finally"}

\* A /tts request whose text is a string that is not blank.
ValidSynthesis(q) ==
    /\ q.route = "/tts" /\ q.json.t = "dict" /\ "text" \in DOMAIN q.json.v
    /\ IsStr(q.json.v["text"]) /\ ~Blank(q.json.v["text"].v)

(* C17: Isolated execution context.  Every /tts request that passes           *)
(* validation runs on an event loop made for it and for no other request, and  *)
(* the loop is closed when the handler returns, whether the synthesis          *)
(* succeeded, the synthesis failed or building the response failed.  No other  *)
(* request has a loop.                                                         *)
C17_IsolatedLoop ==
    /\ \A r \in Reqs :
          /\ pc[r] \in OnLoop => loop[r] = Loop(Rid(r), "open")
          /\ pc[r] \in {"s_stream", "s_outer", "done"} /\ loop[r] # NoLoop =>
                loop[r] = Loop(Rid(r), "closed")
          /\ Done(r) /\ ValidSynthesis(req[r]) => loop[r] # NoLoop
          /\ ~ValidSynthesis(req[r]) => loop[r] = NoLoop
    /\ \A r, u \in Reqs :
          r # u /\ loop[r] # NoLoop /\ loop[u] # NoLoop => loop[r].id # loop[u].id

\* One request has been answered with its audio, another with 500 because the
\* audio file could not be opened; each had its own loop, and both are closed.
C17_Witness ==
    \E r, u \in Reqs :
        /\ Done(r) /\ resp[r].status = 200 /\ loop[r] = Loop(Rid(r), "closed")
        /\ Done(u) /\ resp[u].status = 500 /\ exc[u] \in OpenErrors
        /\ loop[u] = Loop(Rid(u), "closed")

(* C18: Catalog immutability.  No step of any request changes the voice       *)
(* catalog: in every reachable state it is the catalog of startup, and every   *)
(* language of it has at least one speaker.                                    *)
C18_CatalogImmutable ==
    /\ language_dict = language_dict_init
    /\ \A l \in DOMAIN language_dict : Len(language_dict[l]) >= 1

\* A request for an unknown language has been answered with audio, and another
\* request has failed, with the catalog as it was.
C18_Witness ==
    \E r, u \in Reqs :
        /\ Done(r) /\ req[r].route = "/tts" /\ AskedLanguage(req[r]) = "Klingon"
        /\ resp[r].status = 200
        /\ Done(u) /\ resp[u].status \in {400, 500}
        /\ DOMAIN language_dict = DOMAIN language_dict_init

\* The key of each navigation code.
NavigationKey ==
    [c \in {"UP", "DOWN", "LEFT", "RIGHT", "SELECT"} |->
        CASE c = "UP" -> "Up"
          [] c = "DOWN" -> "Down"
          [] c = "LEFT" -> "Left"
          [] c = "RIGHT" -> "Right"
          [] c = "SELECT" -> "Return"]

\* The keys of a sequence of events: one for each navigation code, in order,
\* and none for None or another code.
RECURSIVE KeysOf(_)
KeysOf(es) ==
    IF es = <<>> THEN <<>>
    ELSE (IF Head(es) # JNull /\ Head(es).v \in DOMAIN NavigationKey
          THEN <<NavigationKey[Head(es).v]>>
          ELSE <<>>) \o KeysOf(Tail(es))

\* The events the script is through with: all it polled, but the one it has
\* yet to dispatch.
DispatchedEvents ==
    IF cec_pc = "dispatch" THEN SubSeq(polled, 1, Len(polled) - 1) ELSE polled

(* C19: Remote-control loop.  The keys sent are, in order, one key for each   *)
(* polled event that is UP, DOWN, LEFT, RIGHT or SELECT (Up, Down, Left,       *)
(* Right, Return), and no key for an event that is None or another code.       *)
C19_RemoteControlLoop == keys = KeysOf(DispatchedEvents)

\* RIGHT, None, EXIT and LEFT have been polled, and Right and Left sent.
C19_Witness ==
    /\ cec_pc = "poll"
    /\ polled = <<Code("RIGHT"), JNull, Code("EXIT"), Code("LEFT")>>
    /\ keys = <<"Right", "Left">>

====
